---- MODULE Spec2Model ----
(***************************************************************************)
(* A model of the caching DNS forwarder of src/dns_server.py together      *)
(* with its cache (src/dns_cache.py) and its wire codec                    *)
(* (src/dns_packet.py).                                                    *)
(*                                                                         *)
(* Datagrams are sequences of bytes (0..255) and the codec is modelled     *)
(* byte by byte.  Wall-clock time is counted in whole seconds.  Each       *)
(* worker of the thread pool is a process whose steps are the places where *)
(* the interpreter can switch threads between two accesses to the shared   *)
(* cache.  An exception that leaves client_thread ends the worker in the   *)
(* state "crashed" (the Future swallows it).                               *)
(*                                                                         *)
(* The server is taken to be constructed with a forwarder given as a bare  *)
(* host name (command-line handling lies outside the model).               *)
(***************************************************************************)
EXTENDS Integers, Sequences, FiniteSets, TLC

\* ------------------------------------------------------------------ bounds
NWorkers == 2
MaxRequests == 3
MaxTime == 3

\* ------------------------------------------------------- program constants
HeaderLength == 12
ObsoleteLimit == 2
ForwardWait == 3

Workers == 1..NWorkers
Pointer == <<192, 12>>
TYPES == {1, 2, 5, 6, 12, 15, 28, 255}

\* ------------------------------------------------------------ byte helpers
\* Python's s[a:b] for 0 <= a and 0 <= b, on a 1-based sequence.
Slice(s, a, b) ==
  LET hi == IF b > Len(s) THEN Len(s) ELSE b
  IN  IF a >= hi THEN <<>> ELSE SubSeq(s, a + 1, hi)

\* Python's s[a:].
From(s, a) == Slice(s, a, Len(s))

\* bytes.find(x): the 0-based index of the first byte x, or -1.
Find(s, x) ==
  IF \E i \in 1..Len(s) : s[i] = x
  THEN (CHOOSE i \in 1..Len(s) : s[i] = x /\ \A j \in 1..(i - 1) : s[j] # x) - 1
  ELSE -1

\* bytes.find(pointer) for the two-byte pointer.
FindPointer(s) ==
  IF \E i \in 1..(Len(s) - 1) : s[i] = Pointer[1] /\ s[i + 1] = Pointer[2]
  THEN (CHOOSE i \in 1..(Len(s) - 1) :
          /\ s[i] = Pointer[1] /\ s[i + 1] = Pointer[2]
          /\ \A j \in 1..(i - 1) : ~(s[j] = Pointer[1] /\ s[j + 1] = Pointer[2])) - 1
  ELSE -1

\* bytes.split(pointer).
RECURSIVE Split(_)
Split(s) ==
  LET i == FindPointer(s)
  IN  IF i = -1 THEN <<s>> ELSE <<Slice(s, 0, i)>> \o Split(From(s, i + 2))

\* struct 'H' and 'I', big-endian.
U16(s) == s[1] * 256 + s[2]
U32(s) == ((s[1] * 256 + s[2]) * 256 + s[3]) * 256 + s[4]
Pack16(n) == <<n \div 256, n % 256>>
Pack32(n) == <<n \div 16777216, (n \div 65536) % 256, (n \div 256) % 256, n % 256>>

\* Python's a | b on non-negative integers, bit by bit.
BitOrBits[a \in Nat, b \in Nat] ==
  IF a = 0 THEN b
  ELSE IF b = 0 THEN a
  ELSE (IF a % 2 = 1 \/ b % 2 = 1 THEN 1 ELSE 0) + 2 * BitOrBits[a \div 2, b \div 2]

BitOr(a, b) == BitOrBits[a, b]

\* (x >> k) & 0xf
Nibble(x, k) == (x \div (2 ^ k)) % 16

\* ------------------------------------------------------------------ Header
HeaderOption(query, opcode, auth_ans, trunc, recurs_desired, recurs_available, z, rcode) ==
  BitOr(query * 32768,
    BitOr(opcode * 2048,
      BitOr(auth_ans * 1024,
        BitOr(trunc * 512,
          BitOr(recurs_desired * 256,
            BitOr(recurs_available * 128,
              BitOr(z * 16, rcode)))))))

\* Header.__init__, with the parameters in the order of its signature.
Header(id_p, opcode, authority_answer, truncation, recursion_desired, rcode,
       qdcount, ancount, nscount, arcount, recursion_available, z, query) ==
  [id |-> id_p, query |-> query, opcode |-> opcode, auth_ans |-> authority_answer,
   trunc |-> truncation, recurs_desired |-> recursion_desired,
   recurs_available |-> recursion_available, z |-> z, rcode |-> rcode,
   option |-> HeaderOption(query, opcode, authority_answer, truncation,
                           recursion_desired, recursion_available, z, rcode),
   qdcount |-> qdcount, ancount |-> ancount, nscount |-> nscount, arcount |-> arcount]

HeaderToBinary(h) ==
  Pack16(h.id) \o Pack16(h.option) \o Pack16(h.qdcount) \o
  Pack16(h.ancount) \o Pack16(h.nscount) \o Pack16(h.arcount)

\* Header.from_binary raises (the name option is unbound) on fewer than 12 bytes.
HeaderFromBinaryRaises(data) == Len(Slice(data, 0, HeaderLength)) # HeaderLength

HeaderFromBinary(data) ==
  LET id_p   == U16(Slice(data, 0, 2))
      option == U16(Slice(data, 2, 4))
  IN  Header(id_p, Nibble(option, 11), Nibble(option, 10), Nibble(option, 9),
             Nibble(option, 8), Nibble(option, 0),
             U16(Slice(data, 4, 6)), U16(Slice(data, 6, 8)),
             U16(Slice(data, 8, 10)), U16(Slice(data, 10, 12)),
             Nibble(option, 7), Nibble(option, 4), option \div 32768)

\* ---------------------------------------------------------------- Question
Question(name, record_type, record_class) ==
  [name |-> name, rec_type |-> record_type, rec_class |-> record_class]

\* Question.from_binary raises struct.error unless exactly four bytes follow the name.
QuestionFromBinaryRaises(data) ==
  Len(From(data, Find(data, 0) + 1)) # 4

QuestionFromBinary(data) ==
  LET name == Slice(data, 0, Find(data, 0) + 1)
      rest == From(data, Len(name))
  IN  Question(name, U16(Slice(rest, 0, 2)), U16(Slice(rest, 2, 4)))

QuestionToBinary(q) == q.name \o Pack16(q.rec_type) \o Pack16(q.rec_class)

\* Question.decode_name raises IndexError when a length byte leads past the end
\* of the name (labels are ASCII in every datagram of the model).
RECURSIVE DecodeNameRaises(_, _)
DecodeNameRaises(name, pointer) ==
  IF pointer >= Len(name) THEN TRUE
  ELSE IF name[pointer + 1] = 0 THEN FALSE
  ELSE DecodeNameRaises(name, pointer + name[pointer + 1] + 1)

\* hash(bytes): 0 for the empty string; otherwise a stand-in for the seeded
\* hash of the interpreter, which tells the names of the model apart.
RECURSIVE NameHash(_)
NameHash(name) ==
  IF name = <<>> THEN 0 ELSE 1000 + ((name[1] + 31 * NameHash(Tail(name))) % 9973)

\* Question.__hash__ up to the injective map x |-> 31 * x ** 3.
QuestionHash(q) ==
  (NameHash(q.name) + q.rec_type) * (NameHash(q.name) + q.rec_type) + q.rec_class

\* Question.__eq__: the type and class comparisons compare self with self.
QuestionEq(self, other) ==
  self.name = other.name /\ self.rec_type = self.rec_type /\ self.rec_class = self.rec_class

\* ---------------------------------------------------------- ResourceRecord
\* ResourceRecord.__init__ at time t.  has_ttl tells whether the attribute ttl
\* was set (it is not when the ttl argument is falsy); last_update is set on
\* every record that is not bad.
ResourceRecord(binary_name, r_type, r_class, ttl, rdlen, rdata, section_type, t) ==
  [bin_name |-> binary_name, r_type |-> r_type, r_class |-> r_class,
   has_ttl |-> ttl # 0, ttl |-> ttl, rdlen |-> rdlen, rdata |-> rdata,
   last_update |-> t, section |-> section_type,
   bad_data |-> FALSE, binary_bad_data |-> <<>>]

\* ResourceRecord(bad_data=True, binary_bad_data=data): every other attribute
\* is None or unset.
BadRecord(data) ==
  [bin_name |-> <<>>, r_type |-> 0, r_class |-> 0,
   has_ttl |-> FALSE, ttl |-> 0, rdlen |-> 0, rdata |-> <<>>,
   last_update |-> 0, section |-> "None",
   bad_data |-> TRUE, binary_bad_data |-> data]

RecordFromBinary(data, len_name, section_type, t) ==
  LET fixed == Slice(data, len_name, len_name + 10)
  IN  IF Len(fixed) # 10 THEN BadRecord(data)
      ELSE LET rdlen == U16(Slice(fixed, 8, 10))
           IN  ResourceRecord(Slice(data, 0, len_name),
                              U16(Slice(fixed, 0, 2)), U16(Slice(fixed, 2, 4)),
                              U32(Slice(fixed, 4, 8)), rdlen,
                              Slice(data, len_name + 10, len_name + 10 + rdlen),
                              section_type, t)

\* ResourceRecord.length; on a bad record len(None) raises TypeError.
RecordLength(r) == Len(r.bin_name) + 10 + Len(r.rdata)

\* ResourceRecord.to_binary raises on a record without ttl (AttributeError) and
\* on a negative ttl (struct.error).
RecordToBinaryRaises(r) == ~r.bad_data /\ (~r.has_ttl \/ r.ttl < 0)

RecordToBinary(r) ==
  IF ~r.bad_data
  THEN r.bin_name \o Pack16(r.r_type) \o Pack16(r.r_class) \o Pack32(r.ttl)
         \o Pack16(r.rdlen) \o r.rdata
  ELSE r.binary_bad_data

\* ResourceRecord.is_obsolete at time t; the AttributeError of a record
\* without ttl is caught.
IsObsolete(r, t) ==
  IF r.has_ttl THEN r.ttl - (t - r.last_update) < ObsoleteLimit ELSE FALSE

ChangeTtl(r, ttl, last_update) == [r EXCEPT !.ttl = ttl, !.last_update = last_update]

\* --------------------------------------------------------------- DNSPacket
\* The list resource_records of DNSPacket.from_binary before the records are
\* picked; the flag tells that length() was called on a bad last record.
ResourceFragments(past_request, t) ==
  LET parts == Split(past_request)
      resource_records == [i \in 1..(Len(parts) - 1) |-> Pointer \o parts[i + 1]]
  IN  IF resource_records # <<>>
      THEN LET n      == Len(resource_records)
               record == resource_records[n]
               last   == RecordFromBinary(record, 2, "AN", t)
               len_last_record == RecordLength(last)
           IN  IF last.bad_data THEN [raised |-> TRUE, queue |-> <<>>]
               ELSE IF len_last_record < Len(record)
               THEN [raised |-> FALSE,
                     queue |-> SubSeq(resource_records, 1, n - 1)
                                 \o <<Slice(record, 0, len_last_record)>>
                                 \o <<From(record, len_last_record)>>]
               ELSE [raised |-> FALSE, queue |-> resource_records]
      ELSE [raised |-> FALSE, queue |-> <<past_request>>]

\* DNSPacket.pick_resource_records on the first count fragments of queue.
PickResourceRecords(count, r_type, queue, t) ==
  [i \in 1..count |-> RecordFromBinary(queue[i], 2, r_type, t)]

NoPacket ==
  [raised |-> TRUE, header |-> Header(0, 0, 0, 0, 0, 0, 0, 0, 0, 0, 0, 0, 0),
   question |-> Question(<<>>, 0, 0),
   answers |-> <<>>, authorities |-> <<>>, additionals |-> <<>>]

\* DNSPacket.from_binary at time t.  raised: an exception left from_binary
\* (a short header, a short question, length() of a bad last record, or a
\* pop from the emptied queue).
DNSPacketFromBinary(request, t) ==
  LET bin_header == Slice(request, 0, HeaderLength)
      question_b == Slice(request, HeaderLength,
                          HeaderLength + Find(From(request, HeaderLength), 0) + 5)
  IN  IF HeaderFromBinaryRaises(bin_header) \/ QuestionFromBinaryRaises(question_b)
      THEN NoPacket
      ELSE
        LET header   == HeaderFromBinary(bin_header)
            question == QuestionFromBinary(question_b)
            past_request == From(request, Len(bin_header) + Len(question_b))
            frags == ResourceFragments(past_request, t)
            an == header.ancount
            ns == header.nscount
            ar == header.arcount
        IN  IF frags.raised \/ an + ns + ar > Len(frags.queue)
            THEN NoPacket
            ELSE [raised |-> FALSE, header |-> header, question |-> question,
                  answers |-> PickResourceRecords(an, "AN", frags.queue, t),
                  authorities |->
                    PickResourceRecords(ns, "NS", From(frags.queue, an), t),
                  additionals |->
                    PickResourceRecords(ar, "AR", From(frags.queue, an + ns), t)]

\* ------------------------------------------------------------- DNSCache
\* The dictionary self.cache is the sequence of its entries in insertion
\* order, each a key and its list.  Lookup is the dictionary's probe: the
\* first entry whose key has the hash of q and compares equal to it, or 0.
KeyMatch(k, q) == QuestionHash(k) = QuestionHash(q) /\ QuestionEq(k, q)

Lookup(c, q) ==
  IF \E i \in 1..Len(c) : KeyMatch(c[i].key, q)
  THEN CHOOSE i \in 1..Len(c) :
         KeyMatch(c[i].key, q) /\ \A j \in 1..(i - 1) : ~KeyMatch(c[j].key, q)
  ELSE 0

\* self.cache[key] (the key is present).
CacheList(c, q) == c[Lookup(c, q)].list

\* DNSCache.put
CachePut(c, q, list_value) ==
  IF Lookup(c, q) # 0
  THEN [c EXCEPT ![Lookup(c, q)].list = list_value]
  ELSE Append(c, [key |-> q, list |-> list_value])

\* A contains that only asks whether the key is present.
CacheContainsKey(c, q) == Lookup(c, q) # 0

\* DNSCache.contains: self.cache.get(key) is a non-empty list.
CacheContains(c, q) == Lookup(c, q) # 0 /\ CacheList(c, q) # <<>>

\* DNSCache.get_obsolete_records at time t.
GetObsoleteRecords(c, q, t) == SelectSeq(CacheList(c, q), LAMBDA r : IsObsolete(r, t))

\* A get that drops the bad records from the list while it ages the others.
RECURSIVE GetLoopSweep(_, _)
GetLoopSweep(rs, t) ==
  IF rs = <<>>
  THEN [list |-> <<>>, ancount |-> 0, nscount |-> 0, arcount |-> 0, raised |-> FALSE]
  ELSE LET record == Head(rs)
       IN  IF ~record.bad_data /\ ~record.has_ttl
           THEN [list |-> rs, ancount |-> 0, nscount |-> 0, arcount |-> 0, raised |-> TRUE]
           ELSE LET rest == GetLoopSweep(Tail(rs), t)
                    aged == IF record.bad_data THEN <<>>
                            ELSE <<ChangeTtl(record, record.ttl - (t - record.last_update), t)>>
                    Count(section) ==
                      IF ~record.bad_data /\ record.section = section THEN 1 ELSE 0
                IN  [list |-> aged \o rest.list,
                     ancount |-> Count("AN") + rest.ancount,
                     nscount |-> Count("NS") + rest.nscount,
                     arcount |-> Count("AR") + rest.arcount,
                     raised |-> rest.raised]

\* The loop of DNSCache.get over the list rs at time t: every record that is
\* not bad is aged and counted; a record without ttl raises AttributeError
\* and the records before it stay aged.
RECURSIVE GetLoop(_, _)
GetLoop(rs, t) ==
  IF rs = <<>>
  THEN [list |-> <<>>, ancount |-> 0, nscount |-> 0, arcount |-> 0, raised |-> FALSE]
  ELSE LET record == Head(rs)
       IN  IF ~record.bad_data /\ ~record.has_ttl
           THEN [list |-> rs, ancount |-> 0, nscount |-> 0, arcount |-> 0, raised |-> TRUE]
           ELSE LET rest == GetLoop(Tail(rs), t)
                    aged == IF record.bad_data THEN record
                            ELSE ChangeTtl(record, record.ttl - (t - record.last_update), t)
                    Count(section) ==
                      IF ~record.bad_data /\ record.section = section THEN 1 ELSE 0
                IN  [list |-> <<aged>> \o rest.list,
                     ancount |-> Count("AN") + rest.ancount,
                     nscount |-> Count("NS") + rest.nscount,
                     arcount |-> Count("AR") + rest.arcount,
                     raised |-> rest.raised]

\* --------------------------------------------------------------- responses
RECURSIVE RecordsToBinary(_)
RecordsToBinary(rs) ==
  IF rs = <<>> THEN <<>> ELSE RecordToBinary(Head(rs)) \o RecordsToBinary(Tail(rs))

\* DNSServer.build_response from the request packet, the records returned by
\* the cache and the three counts.
BuildResponse(req_packet, records, ancount, nscount, arcount) ==
  LET response == QuestionToBinary(req_packet.question) \o RecordsToBinary(records)
      header == Header(req_packet.header.id, req_packet.header.opcode, 0, 0,
                       req_packet.header.recurs_desired, 0,
                       req_packet.header.qdcount, ancount, nscount, arcount, 1, 0, 1)
  IN  HeaderToBinary(header) \o response

\* A build_error_message that copies the request's question count.
BuildErrorMessageQd(req_packet) ==
  LET header == Header(req_packet.header.id, req_packet.header.opcode, 0, 0,
                       req_packet.header.recurs_desired, 2,
                       req_packet.header.qdcount, 0, 0, 0, 1, 0, 1)
  IN  HeaderToBinary(header) \o QuestionToBinary(req_packet.question)

BuildErrorMessage(req_packet) ==
  LET header == Header(req_packet.header.id, req_packet.header.opcode, 0, 0,
                       req_packet.header.recurs_desired, 2, 0, 0, 0, 0, 1, 0, 1)
  IN  HeaderToBinary(header) \o QuestionToBinary(req_packet.question)

\* DNSServer.output raises KeyError on a type outside TYPES and IndexError
\* from decode_name.
OutputRaises(question) ==
  question.rec_type \notin TYPES \/ DecodeNameRaises(question.name, 0)

\* ----------------------------------------------------------------- inputs
\* The datagrams the clients and the upstream send in the model.
MkHeader(id, option, qd, an, ns, ar) ==
  Pack16(id) \o Pack16(option) \o Pack16(qd) \o Pack16(an) \o Pack16(ns) \o Pack16(ar)

MkRecord(ttl, rdata) ==
  Pointer \o Pack16(1) \o Pack16(1) \o Pack32(ttl) \o Pack16(Len(rdata)) \o rdata

QuestionA == <<1, 97, 0>> \o Pack16(1) \o Pack16(1)

\* A query for "a." A IN with id 0x1234 and, beside RD, the AA, TC, RA, Z and
\* RCODE bits set in the flags.
ReqFlags == MkHeader(4660, 2047, 1, 0, 0, 0) \o QuestionA

Requests == {ReqFlags}

\* One answer (ttl 3) and one additional record (ttl 4).
RepTwo == MkHeader(4660, 33152, 1, 1, 0, 1) \o QuestionA
            \o MkRecord(3, <<9>>) \o MkRecord(4, <<8>>)
\* One answer with ttl 1, obsolete from the start.
RepOne == MkHeader(4660, 33152, 1, 1, 0, 0) \o QuestionA \o MkRecord(1, <<7>>)
\* One answer with ttl 0.
RepZero == MkHeader(4660, 33152, 1, 1, 0, 0) \o QuestionA \o MkRecord(0, <<6>>)
\* ANCOUNT 2 and a single record.
RepShort == MkHeader(4660, 33152, 1, 2, 0, 0) \o QuestionA \o MkRecord(3, <<5>>)
\* No record at all.
RepEmpty == MkHeader(4660, 33152, 1, 0, 0, 0) \o QuestionA

Replies == {RepTwo, RepOne, RepZero, RepShort, RepEmpty}

\* Datagrams without a zero byte behind the header: the decoder takes the
\* four bytes behind the header for type and class and the name for empty.
\* Type 257 with class 772, and type 258 with class 257.
ReqE1 == MkHeader(4660, 256, 1, 0, 0, 0) \o <<1, 1, 3, 4>>
ReqE2 == MkHeader(4661, 256, 1, 0, 0, 0) \o <<1, 2, 1, 1>>
\* The reply to ReqE1: one answer whose every byte is 1, with one byte of data.
RepE1 == MkHeader(4660, 33152, 1, 1, 0, 0) \o <<1, 1, 3, 4>>
           \o Pointer \o <<1, 1, 1, 1, 1, 1, 1, 1, 1, 1, 7>>

KeyRequests == {ReqE1, ReqE2}
KeyReplies == {RepE1}

\* Datagrams shorter than a header: four bytes, and a header less its last byte.
ReqShort == <<18, 52, 1, 0>>
ReqEleven == SubSeq(ReqFlags, 1, HeaderLength - 1)

\* A record cut off inside its ten fixed bytes.
CutRecord == Pointer \o <<0, 1>>
\* ANCOUNT 2: a whole record (ttl 5) followed by a cut one.
RepBadLast == MkHeader(4660, 33152, 1, 2, 0, 0) \o QuestionA
                \o MkRecord(5, <<9>>) \o CutRecord
\* ANCOUNT 2: a cut record followed by a whole one (ttl 5).
RepBadFirst == MkHeader(4660, 33152, 1, 2, 0, 0) \o QuestionA
                 \o CutRecord \o MkRecord(5, <<9>>)
\* A reply whose question is "b." A IN, with one answer (ttl 5).
RepOther == MkHeader(4660, 33152, 1, 1, 0, 0) \o <<1, 98, 0>> \o Pack16(1) \o Pack16(1)
              \o MkRecord(5, <<4>>)

OddRequests == {ReqFlags, ReqShort, ReqEleven}
OddReplies == {RepBadLast, RepBadFirst, RepOther}

\* Headers whose fields fit their widths: each one-bit flag 0 or 1, the
\* wider fields 0 or a value with several bits set, no NS or AR record.
Headers ==
  {Header(id_p, opcode, aa, tc, rd, rcode, qdcount, ancount, 0, 0, ra, z, qr) :
     id_p \in {4660, 65535}, opcode \in {0, 10}, aa \in {0, 1}, tc \in {0, 1},
     rd \in {0, 1}, rcode \in {0, 5}, qdcount \in {1, 65535}, ancount \in {0, 1},
     ra \in {0, 1}, z \in {0, 7}, qr \in {0, 1}}

\* The datagrams for "a." A IN that carry these headers encoded.
HeaderRequests == {HeaderToBinary(h) \o QuestionA : h \in Headers}

AllRequests == Requests \cup KeyRequests \cup OddRequests \cup HeaderRequests
AllReplies == Replies \cup KeyReplies \cup OddReplies

\* DNSPacket.from_binary on the datagrams of the model, evaluated once.
DecodedRequest == [req \in AllRequests |-> DNSPacketFromBinary(req, 0)]
DecodedReply == [resp \in AllReplies |-> [t \in 0..MaxTime |-> DNSPacketFromBinary(resp, t)]]

\* ------------------------------------------------------------------- state
VARIABLES
  now,        \* time(), in seconds
  cache,      \* DNSServer.cache.cache
  lock_put,   \* DNSServer.lock_put: 0 or the worker holding it
  lock_get,   \* DNSServer.lock_get: 0 or the worker holding it
  wk,         \* the locals of each worker's client_thread
  nreq,       \* the datagrams received so far
  inserted,   \* history: the keys put was called with
  last_put    \* history: the worker whose put ran last, or 0

vars == <<now, cache, lock_put, lock_get, wk, nreq, inserted, last_put>>

Idle ==
  [pc |-> "idle", dns_req |-> <<>>, req_packet |-> NoPacket,
   contained |-> FALSE, checked |-> FALSE, obsolete_records |-> <<>>,
   upstream_sent |-> <<>>, fwd_time |-> 0,
   error_code |-> -1, dns_response |-> <<>>, resp_packet |-> NoPacket,
   got |-> FALSE, get_time |-> 0, records |-> <<>>,
   ancount |-> 0, nscount |-> 0, arcount |-> 0,
   puts |-> 0, touched |-> FALSE, sent |-> <<>>, source |-> ""]

Finished(w) == wk[w].pc \in {"done", "crashed"}

Init ==
  /\ now = 0
  /\ cache = <<>>
  /\ lock_put = 0
  /\ lock_get = 0
  /\ wk = [w \in Workers |-> Idle]
  /\ nreq = 0
  /\ inserted = {}
  /\ last_put = 0

\* time passes
Tick ==
  /\ now < MaxTime
  /\ now' = now + 1
  /\ UNCHANGED <<cache, lock_put, lock_get, wk, nreq, inserted, last_put>>

\* appeal_to_forward up to its wait: the request goes to the upstream.
Forwarded(l, t) ==
  [l EXCEPT !.upstream_sent = Append(@, l.dns_req), !.fwd_time = t, !.pc = "wait"]

\* send to the client followed by output.
Sent(l, response, source) ==
  [l EXCEPT !.sent = Append(@, response),
            !.source = source,
            !.pc = IF OutputRaises(l.req_packet.question) THEN "crashed" ELSE "done"]

\* A thread of the pool that runs no task.
Free(w) == wk[w].pc \in {"idle", "done", "crashed"}

\* A client_thread that forwards a request it could not decode.
SubmitUndecoded(w, req) ==
  /\ nreq < MaxRequests
  /\ Free(w)
  /\ \A v \in Workers : v < w => ~Free(v)
  /\ nreq' = nreq + 1
  /\ LET p == DecodedRequest[req]
         l == [Idle EXCEPT !.dns_req = req, !.req_packet = p]
     IN  IF ~p.raised /\ CacheContains(cache, p.question)
         THEN wk' = [wk EXCEPT ![w] = [l EXCEPT !.contained = TRUE, !.pc = "obs_lock"]]
         ELSE wk' = [wk EXCEPT ![w] = Forwarded(l, now)]
  /\ UNCHANGED <<now, cache, lock_put, lock_get, inserted, last_put>>

\* run and the head of client_thread: a datagram is received and given to a
\* free worker (the first one: the threads of the pool are alike), which
\* decodes it and asks the cache whether it holds the key; on a miss the
\* request is forwarded.
Submit(w, req) ==
  /\ nreq < MaxRequests
  /\ Free(w)
  /\ \A v \in Workers : v < w => ~Free(v)
  /\ nreq' = nreq + 1
  /\ LET p == DecodedRequest[req]
         l == [Idle EXCEPT !.dns_req = req, !.req_packet = p]
     IN  IF p.raised
         THEN wk' = [wk EXCEPT ![w] = [l EXCEPT !.pc = "crashed"]]
         ELSE IF CacheContains(cache, p.question)
         THEN wk' = [wk EXCEPT ![w] = [l EXCEPT !.contained = TRUE, !.pc = "obs_lock"]]
         ELSE wk' = [wk EXCEPT ![w] = Forwarded(l, now)]
  /\ UNCHANGED <<now, cache, lock_put, lock_get, inserted, last_put>>

\* client_thread: get_obsolete_records under lock_get, then the branch.
CheckObsolete(w) ==
  /\ wk[w].pc = "obs_lock"
  /\ lock_get = 0
  /\ LET o == GetObsoleteRecords(cache, wk[w].req_packet.question, now)
         l == [wk[w] EXCEPT !.obsolete_records = o, !.checked = TRUE]
     IN  IF o # <<>>
         THEN wk' = [wk EXCEPT ![w] = Forwarded(l, now)]
         ELSE wk' = [wk EXCEPT ![w] = [l EXCEPT !.pc = "get_lock"]]
  /\ UNCHANGED <<now, cache, lock_put, lock_get, nreq, inserted, last_put>>

\* appeal_to_forward and update_cache: a datagram arrives within the wait and
\* is decoded.
UpstreamReply(w, resp) ==
  /\ wk[w].pc = "wait"
  /\ now < wk[w].fwd_time + ForwardWait
  /\ LET p == DecodedReply[resp][now]
     IN  wk' = [wk EXCEPT ![w].error_code = 0,
                          ![w].dns_response = resp,
                          ![w].resp_packet = p,
                          ![w].pc = IF p.raised THEN "crashed" ELSE "put_lock"]
  /\ UNCHANGED <<now, cache, lock_put, lock_get, nreq, inserted, last_put>>

\* appeal_to_forward, update_cache and update_send_to_forward: nothing came
\* within the wait; the error message is sent.
UpstreamTimeout(w) ==
  /\ wk[w].pc = "wait"
  /\ now >= wk[w].fwd_time + ForwardWait
  /\ wk' = [wk EXCEPT ![w].error_code = 2,
                       ![w].sent = Append(@, BuildErrorMessage(wk[w].req_packet)),
                       ![w].source = "error",
                       ![w].pc = "done"]
  /\ UNCHANGED <<now, cache, lock_put, lock_get, nreq, inserted, last_put>>

\* put_in_cache: with self.lock_put (entered).
PutLock(w) ==
  /\ wk[w].pc = "put_lock"
  /\ lock_put = 0
  /\ lock_put' = w
  /\ wk' = [wk EXCEPT ![w].pc = "put"]
  /\ UNCHANGED <<now, cache, lock_get, nreq, inserted, last_put>>

\* put_in_cache: the put, under the question of the decoded reply; then
\* update_send_to_forward sends the upstream's bytes to the client.
Put(w) ==
  /\ wk[w].pc = "put"
  /\ LET p == wk[w].resp_packet
     IN  cache' = CachePut(cache, p.question, p.answers \o p.authorities \o p.additionals)
  /\ inserted' = inserted \cup {wk[w].resp_packet.question}
  /\ last_put' = w
  /\ lock_put' = 0
  /\ wk' = [wk EXCEPT ![w] = Sent([wk[w] EXCEPT !.puts = @ + 1, !.touched = TRUE],
                                  wk[w].dns_response, "forwarder")]
  /\ UNCHANGED <<now, lock_get, nreq>>

\* A build_response whose lock stays held when get raises.
GetLockHeld(w) ==
  /\ wk[w].pc = "get_lock"
  /\ lock_get = 0
  /\ \E i \in {Lookup(cache, wk[w].req_packet.question)} :
     \E g \in {GetLoop(cache[i].list, now)} :
         /\ cache' = [cache EXCEPT ![i].list = g.list]
         /\ IF g.raised
            THEN wk' = [wk EXCEPT ![w].touched = TRUE, ![w].pc = "crashed"]
            ELSE wk' = [wk EXCEPT ![w].touched = TRUE,
                                  ![w].ancount = g.ancount,
                                  ![w].nscount = g.nscount,
                                  ![w].arcount = g.arcount,
                                  ![w].pc = "get_ret"]
         /\ lock_get' = w
  /\ UNCHANGED <<now, lock_put, nreq, inserted, last_put>>

\* build_response and DNSCache.get: under lock_get the list read by the first
\* self.cache[key] is aged and counted.  An exception leaves the lock.  (i is
\* the dictionary slot of the key and g the outcome of the loop, each
\* evaluated once.)
GetLock(w) ==
  /\ wk[w].pc = "get_lock"
  /\ lock_get = 0
  /\ \E i \in {Lookup(cache, wk[w].req_packet.question)} :
     \E g \in {GetLoop(cache[i].list, now)} :
         /\ cache' = [cache EXCEPT ![i].list = g.list]
         /\ IF g.raised
            THEN /\ wk' = [wk EXCEPT ![w].touched = TRUE, ![w].pc = "crashed"]
                 /\ UNCHANGED lock_get
            ELSE /\ wk' = [wk EXCEPT ![w].touched = TRUE,
                                     ![w].ancount = g.ancount,
                                     ![w].nscount = g.nscount,
                                     ![w].arcount = g.arcount,
                                     ![w].pc = "get_ret"]
                 /\ lock_get' = w
  /\ UNCHANGED <<now, lock_put, nreq, inserted, last_put>>

\* DNSCache.get returns self.cache[key], read again, with the counts and
\* leaves the lock; build_response encodes the records and the response is
\* sent.
GetReturn(w) ==
  /\ wk[w].pc = "get_ret"
  /\ \E records \in {CacheList(cache, wk[w].req_packet.question)} :
     \E l \in {[wk[w] EXCEPT !.records = records, !.got = TRUE, !.get_time = now]} :
         IF \E k \in 1..Len(records) : RecordToBinaryRaises(records[k])
         THEN wk' = [wk EXCEPT ![w] = [l EXCEPT !.pc = "crashed"]]
         ELSE wk' = [wk EXCEPT ![w] =
                       Sent(l, BuildResponse(l.req_packet, records,
                                             l.ancount, l.nscount, l.arcount), "cache")]
  /\ lock_get' = 0
  /\ UNCHANGED <<now, cache, lock_put, nreq, inserted, last_put>>

Next ==
  \/ Tick
  \/ \E w \in Workers, req \in Requests : Submit(w, req)
  \/ \E w \in Workers : CheckObsolete(w)
  \/ \E w \in Workers, resp \in Replies : UpstreamReply(w, resp)
  \/ \E w \in Workers : UpstreamTimeout(w)
  \/ \E w \in Workers : PutLock(w)
  \/ \E w \in Workers : Put(w)
  \/ \E w \in Workers : GetLock(w)
  \/ \E w \in Workers : GetReturn(w)

Spec == Init /\ [][Next]_vars

\* The scheduler lets every thread that can take a step take one, a free
\* lock goes to a thread that waits for it, and every wait for the upstream
\* ends, by a reply or by the timeout.
SpecLive ==
  /\ Init
  /\ [][Next]_vars
  /\ \A w \in Workers :
       /\ WF_vars(CheckObsolete(w))
       /\ WF_vars(PutLock(w))
       /\ WF_vars(Put(w))
       /\ WF_vars(GetLock(w))
       /\ WF_vars(GetReturn(w))
       /\ WF_vars(UpstreamTimeout(w) \/ \E resp \in Replies : UpstreamReply(w, resp))

\* The server with the clients and the upstream sending the datagrams whose
\* questions have the empty name.
NextKeys ==
  \/ Tick
  \/ \E w \in Workers, req \in KeyRequests : Submit(w, req)
  \/ \E w \in Workers : CheckObsolete(w)
  \/ \E w \in Workers, resp \in KeyReplies : UpstreamReply(w, resp)
  \/ \E w \in Workers : UpstreamTimeout(w)
  \/ \E w \in Workers : PutLock(w)
  \/ \E w \in Workers : Put(w)
  \/ \E w \in Workers : GetLock(w)
  \/ \E w \in Workers : GetReturn(w)

SpecKeys == Init /\ [][NextKeys]_vars

\* The server with clients that also send datagrams shorter than a header
\* and an upstream whose replies hold a cut record or another question.
NextOdd ==
  \/ Tick
  \/ \E w \in Workers, req \in OddRequests : Submit(w, req)
  \/ \E w \in Workers : CheckObsolete(w)
  \/ \E w \in Workers, resp \in OddReplies : UpstreamReply(w, resp)
  \/ \E w \in Workers : UpstreamTimeout(w)
  \/ \E w \in Workers : PutLock(w)
  \/ \E w \in Workers : Put(w)
  \/ \E w \in Workers : GetLock(w)
  \/ \E w \in Workers : GetReturn(w)

SpecOdd == Init /\ [][NextOdd]_vars

\* The server receiving one datagram that carries an encoded header.
NextHeader == \E req \in HeaderRequests : Submit(1, req)

SpecHeader == Init /\ [][NextHeader]_vars

\* ------------------------------------------------------------------ claims
\* The standard layout of the flags word and of a datagram, read from the
\* bytes on the wire.
Bit(x, k) == (x \div (2 ^ k)) % 2
WireId(d) == U16(Slice(d, 0, 2))
WireFlags(d) == U16(Slice(d, 2, 4))
WireCount(d, k) == U16(Slice(d, 2 + 2 * k, 4 + 2 * k))
WireOpcode(d) == (WireFlags(d) \div 2048) % 16
WireZ(d) == (WireFlags(d) \div 16) % 8
WireRcode(d) == WireFlags(d) % 16
\* The question of a datagram: the name up to its zero byte, type and class.
WireQuestion(d) ==
  Slice(d, HeaderLength, HeaderLength + Find(From(d, HeaderLength), 0) + 5)

Residual(r, t) == r.ttl - (t - r.last_update)

CountSection(rs, section) ==
  Cardinality({k \in 1..Len(rs) : ~rs[k].bad_data /\ rs[k].section = section})

\* C1: for every request that decodes to key k: on a miss the worker sends
\* the original request bytes to the upstream; on a hit with no obsolete
\* record at the check it sends a response built from the cached records,
\* contacts no upstream and performs no put.
C1_Dispatch ==
  \A w \in Workers :
    Finished(w) /\ ~wk[w].req_packet.raised =>
      /\ ~wk[w].contained => wk[w].upstream_sent = <<wk[w].dns_req>>
      /\ wk[w].contained /\ wk[w].checked /\ wk[w].obsolete_records = <<>> =>
           /\ wk[w].source = "cache"
           /\ Len(wk[w].sent) = 1
           /\ wk[w].upstream_sent = <<>>
           /\ wk[w].puts = 0

\* C2: whenever the upstream returned a datagram within the wait, the client
\* is sent exactly those bytes, whatever the reply holds.
C2_Passthrough ==
  \A w \in Workers :
    Finished(w) /\ wk[w].error_code = 0 => wk[w].sent = <<wk[w].dns_response>>

\* C3: after an upstream timeout the client has been sent one response with
\* the request's id, QR=1, RCODE=2 and the four counts 0, followed by the
\* question bytes alone, and the worker has neither put nor read-aged
\* anything in the cache.
C3_TimeoutError ==
  \A w \in Workers :
    wk[w].error_code = 2 =>
      /\ Len(wk[w].sent) = 1
      /\ LET m == wk[w].sent[1]
         IN  /\ WireId(m) = WireId(wk[w].dns_req)
             /\ Bit(WireFlags(m), 15) = 1
             /\ WireRcode(m) = 2
             /\ \A k \in 1..4 : WireCount(m, k) = 0
             /\ From(m, HeaderLength) = WireQuestion(wk[w].dns_req)
      /\ wk[w].puts = 0
      /\ ~wk[w].touched

\* C3's case: a timeout on a key that had an entry when the request came,
\* and still has it.
C3_Witness ==
  \E w \in Workers :
    /\ wk[w].error_code = 2
    /\ wk[w].contained
    /\ CacheContains(cache, wk[w].req_packet.question)

\* The records of the reply a worker decoded, in the order put stores them.
ReplyRecords(w) ==
  wk[w].resp_packet.answers \o wk[w].resp_packet.authorities
    \o wk[w].resp_packet.additionals

\* Two record lists that differ by aged reads at most.
SameRecordSet(stored, put) ==
  /\ Len(stored) = Len(put)
  /\ \A k \in 1..Len(put) :
       /\ [stored[k] EXCEPT !.ttl = 0, !.last_update = 0]
            = [put[k] EXCEPT !.ttl = 0, !.last_update = 0]
       /\ stored[k].ttl + stored[k].last_update = put[k].ttl + put[k].last_update

\* C4: the record list and the three counts that one get hands to the
\* response builder describe the same record set: the counts are the numbers
\* of AN, NS and AR records that are not bad in the returned list.
C4_GetConsistent ==
  \A w \in Workers :
    wk[w].got =>
      /\ wk[w].ancount = CountSection(wk[w].records, "AN")
      /\ wk[w].nscount = CountSection(wk[w].records, "NS")
      /\ wk[w].arcount = CountSection(wk[w].records, "AR")

\* C5: when two workers have missed on the same key and the upstream has
\* replied to both, then once both have finished each has put its reply, each
\* client has been sent a response, and the cache holds for the key the
\* record set of the put that ran last.
C5_LastWriterWins ==
  \A w1, w2 \in Workers :
    ( /\ w1 # w2
      /\ Finished(w1) /\ Finished(w2)
      /\ ~wk[w1].req_packet.raised /\ ~wk[w2].req_packet.raised
      /\ wk[w1].req_packet.question = wk[w2].req_packet.question
      /\ ~wk[w1].contained /\ ~wk[w2].contained
      /\ wk[w1].error_code = 0 /\ wk[w2].error_code = 0 )
    => /\ wk[w1].puts = 1 /\ wk[w2].puts = 1
       /\ Len(wk[w1].sent) = 1 /\ Len(wk[w2].sent) = 1
       /\ last_put \in {w1, w2} =>
            /\ Lookup(cache, wk[w1].req_packet.question) # 0
            /\ SameRecordSet(CacheList(cache, wk[w1].req_packet.question),
                             ReplyRecords(last_put))

\* C6: a response built from the cache carries no obsolete record: at the
\* aged read that feeds it every record that is not bad has a residual TTL
\* of at least 2 s.
C6_NoObsoleteServed ==
  \A w \in Workers :
    wk[w].got /\ wk[w].source = "cache" =>
      \A k \in 1..Len(wk[w].records) :
        ~wk[w].records[k].bad_data => Residual(wk[w].records[k], wk[w].get_time) >= 2

\* C7: for every record decoded from an upstream reply and held in the
\* cache, is_obsolete is true exactly when the residual TTL (the TTL minus
\* the time since last_update) is below 2 s, whatever the TTL sent (0
\* included); for a bad record it is false.
C7_ObsoleteIffResidual ==
  \A e \in 1..Len(cache) : \A k \in 1..Len(cache[e].list) :
    LET r == cache[e].list[k]
    IN  IF r.bad_data THEN ~IsObsolete(r, now)
        ELSE IsObsolete(r, now) <=> (Residual(r, now) < 2)

\* The questions of the datagrams of the model.
ModelKeys ==
  {DecodedRequest[req].question : req \in {x \in AllRequests : ~DecodedRequest[x].raised}}
    \cup {DecodedReply[resp][0].question :
            resp \in {x \in AllReplies : ~DecodedReply[x][0].raised}}

C9_GetAges ==
  [][\A w \in Workers :
       GetLock(w) =>
         LET q   == wk[w].req_packet.question
             old == CacheList(cache, q)
             new == CacheList(cache', q)
         IN  /\ Len(new) = Len(old)
             /\ \A k \in 1..Len(old) :
                  ~old[k].bad_data =>
                    /\ new[k].last_update = now
                    /\ new[k].ttl = old[k].ttl - (now - old[k].last_update)
                    /\ new[k].ttl + new[k].last_update
                         = old[k].ttl + old[k].last_update]_vars

\* C10: whatever bits the request's flags word holds, a response built from
\* the cache has the request's ID, OPCODE and RD, QR=1, AA=0, TC=0, RA=1,
\* Z=0, RCODE=0, the request's QDCOUNT, and the three counts of the aged
\* read.
C10_HitHeader ==
  \A w \in Workers :
    wk[w].source = "cache" =>
      LET m == wk[w].sent[1]
          r == wk[w].dns_req
      IN  /\ WireId(m) = WireId(r)
          /\ WireOpcode(m) = WireOpcode(r)
          /\ Bit(WireFlags(m), 8) = Bit(WireFlags(r), 8)
          /\ Bit(WireFlags(m), 15) = 1
          /\ Bit(WireFlags(m), 10) = 0
          /\ Bit(WireFlags(m), 9) = 0
          /\ Bit(WireFlags(m), 7) = 1
          /\ WireZ(m) = 0
          /\ WireRcode(m) = 0
          /\ WireCount(m, 1) = WireCount(r, 1)
          /\ WireCount(m, 2) = wk[w].ancount
          /\ WireCount(m, 3) = wk[w].nscount
          /\ WireCount(m, 4) = wk[w].arcount

\* C11: two questions with the same name bytes that differ in type or in
\* class are distinct keys: a put under one changes neither what contains
\* returns for the other nor the list stored for it, and a request is
\* answered from the cache only from records put under its own question.
C11_DistinctKeys ==
  /\ [][\A w \in Workers :
          Put(w) =>
            \A q \in ModelKeys :
              q # wk[w].resp_packet.question /\ q.name = wk[w].resp_packet.question.name
                => /\ CacheContains(cache', q) <=> CacheContains(cache, q)
                   /\ Lookup(cache, q) # 0 /\ Lookup(cache', q) # 0
                        => CacheList(cache', q) = CacheList(cache, q)]_vars
  /\ [](\A w \in Workers :
          wk[w].source = "cache" => wk[w].req_packet.question \in inserted)

\* A worker whose datagram was shorter than a header.
ShortDatagram(w) == wk[w].pc # "idle" /\ Len(wk[w].dns_req) < HeaderLength

\* C12: a client datagram of fewer than 12 bytes is dropped: the worker ends
\* without sending anything to the client or to the upstream and without
\* touching the cache, the step leaves the cache as it was, and the thread is
\* free for the next datagram.
C12_ShortDropped ==
  /\ [](\A w \in Workers :
          ShortDatagram(w) =>
            /\ wk[w].pc = "crashed"
            /\ wk[w].sent = <<>>
            /\ wk[w].upstream_sent = <<>>
            /\ wk[w].puts = 0
            /\ ~wk[w].touched
            /\ Free(w))
  /\ [][\A w \in Workers :
          ShortDatagram(w)' /\ wk'[w] # wk[w] => cache' = cache]_vars

\* C12's case: worker 2 dropped the second datagram, a short one, and the
\* third datagram has since been answered from the cache by worker 1.
C12_Witness ==
  /\ nreq = 3
  /\ ShortDatagram(2)
  /\ wk[2].pc = "crashed"
  /\ wk[1].contained
  /\ wk[1].source = "cache"
  /\ Len(wk[1].sent) = 1

\* The bytes build_response must emit for a record: a bad record's own
\* bytes, any other record encoded with its aged ttl.
Emitted(r) ==
  IF r.bad_data THEN r.binary_bad_data
  ELSE r.bin_name \o Pack16(r.r_type) \o Pack16(r.r_class) \o Pack32(r.ttl)
         \o Pack16(r.rdlen) \o r.rdata

RECURSIVE EmittedAll(_)
EmittedAll(rs) == IF rs = <<>> THEN <<>> ELSE Emitted(Head(rs)) \o EmittedAll(Tail(rs))

\* The replies with one whole record and one cut record, in both orders.
CutReplies == {RepBadLast, RepBadFirst}

\* C13: a reply with one whole record and one cut record, in either order,
\* is relayed to the client and put in the cache; a later response built from
\* such a list holds the whole record encoded, the cut record's bytes as they
\* came, and section counts that count the whole record alone.
C13_BadRecordKept ==
  /\ \A w \in Workers :
       Finished(w) /\ wk[w].error_code = 0 /\ wk[w].dns_response \in CutReplies =>
         /\ wk[w].sent = <<wk[w].dns_response>>
         /\ wk[w].puts = 1
  /\ \A w \in Workers :
       ( /\ wk[w].source = "cache"
         /\ \E k \in 1..Len(wk[w].records) : wk[w].records[k].bad_data ) =>
         LET m == wk[w].sent[1]
         IN  /\ From(m, HeaderLength)
                  = WireQuestion(wk[w].dns_req) \o EmittedAll(wk[w].records)
             /\ \E k \in 1..Len(wk[w].records) :
                  wk[w].records[k].binary_bad_data = CutRecord
             /\ WireCount(m, 2) = 1
             /\ WireCount(m, 3) = 0
             /\ WireCount(m, 4) = 0

\* C14: for every header whose fields fit their widths, decoding the encoded
\* header gives a header equal to it in every field.
C14_HeaderRoundTrip ==
  \A w \in Workers : \A h \in Headers :
    wk[w].pc # "idle" /\ Slice(wk[w].dns_req, 0, HeaderLength) = HeaderToBinary(h)
      => ~wk[w].req_packet.raised /\ wk[w].req_packet.header = h

\* C15: when the list of a cached key holds a record that is not bad and
\* whose residual TTL is below 2 s, a request for the key is forwarded to the
\* upstream at the check instead of being served from the cache; and the put
\* of the reply to a request that found the key cached leaves exactly the
\* reply's records stored for the key.
C15_StaleRefreshed ==
  /\ [][\A w \in Workers :
          CheckObsolete(w) =>
            LET rs == CacheList(cache, wk[w].req_packet.question)
            IN  (\E k \in 1..Len(rs) : ~rs[k].bad_data /\ Residual(rs[k], now) < 2)
                  => /\ wk'[w].pc = "wait"
                     /\ wk'[w].upstream_sent = <<wk[w].dns_req>>]_vars
  /\ [][\A w \in Workers :
          Put(w) /\ wk[w].contained =>
            /\ Lookup(cache', wk[w].req_packet.question) # 0
            /\ CacheList(cache', wk[w].req_packet.question) = ReplyRecords(w)]_vars

\* C16: the put that follows a successful forward stores the records of the
\* reply under the question of the request, so that the request's key is
\* contained right after the put when the reply carried a record.
C16_StoredUnderRequestKey ==
  [][\A w \in Workers :
       Put(w) =>
         LET k == wk[w].req_packet.question
         IN  /\ Lookup(cache', k) # 0
             /\ CacheList(cache', k) = ReplyRecords(w)
             /\ ReplyRecords(w) # <<>> => CacheContains(cache', k)]_vars

\* C18: a request that decodes gets exactly one datagram back: never two at
\* any time, and one once its worker has ended, which is the upstream's
\* bytes, a response built from the cache, or the error response.
C18_OneDatagram ==
  \A w \in Workers :
    /\ Len(wk[w].sent) <= 1
    /\ Finished(w) /\ ~wk[w].req_packet.raised =>
         /\ Len(wk[w].sent) = 1
         /\ \/ wk[w].source = "forwarder" /\ wk[w].sent[1] = wk[w].dns_response
            \/ wk[w].source = "cache" /\ WireRcode(wk[w].sent[1]) = 0
            \/ wk[w].source = "error" /\ WireRcode(wk[w].sent[1]) = 2

\* The same records in the same order, the bad ones untouched and the others
\* equal but for ttl and last_update.
SameButAged(old, new) ==
  /\ Len(new) = Len(old)
  /\ \A k \in 1..Len(old) :
       IF old[k].bad_data THEN new[k] = old[k]
       ELSE [new[k] EXCEPT !.ttl = 0, !.last_update = 0]
              = [old[k] EXCEPT !.ttl = 0, !.last_update = 0]

\* C17: no step removes a key or changes the order of the keys; a step that
\* is not a put leaves every key with the same records in the same order, and
\* changes ttl or last_update only under the key a get reads; the steps of
\* contains and get_obsolete_records leave the cache as it is.
C17_Frame ==
  [][/\ Len(cache') >= Len(cache)
     /\ \A i \in 1..Len(cache) : cache'[i].key = cache[i].key
     /\ (\A w \in Workers : ~Put(w)) =>
          /\ Len(cache') = Len(cache)
          /\ \A i \in 1..Len(cache) :
               /\ SameButAged(cache[i].list, cache'[i].list)
               /\ cache'[i].list # cache[i].list =>
                    \E w \in Workers :
                      GetLock(w) /\ Lookup(cache, wk[w].req_packet.question) = i
     /\ ( \/ \E w \in Workers :
               wk'[w].dns_req \in AllRequests /\ Submit(w, wk'[w].dns_req)
          \/ \E w \in Workers : CheckObsolete(w) ) => cache' = cache]_vars

\* C17's case: the cache holds two keys and a get has aged, one second or
\* more after the put, a list that holds a bad record.
C17_Witness ==
  \E w \in Workers :
    /\ Len(cache) = 2
    /\ wk[w].got
    /\ wk[w].get_time > 0
    /\ LET rs == CacheList(cache, wk[w].req_packet.question)
       IN  /\ \E k \in 1..Len(rs) : rs[k].bad_data
           /\ \E k \in 1..Len(rs) :
                ~rs[k].bad_data /\ rs[k].last_update = wk[w].get_time /\ rs[k].ttl < 5

\* A worker waits for a lock.
WaitsPut(w) == wk[w].pc = "put_lock"
WaitsGet(w) == wk[w].pc \in {"obs_lock", "get_lock"}

\* C19: no worker holds both locks or waits for one while it holds the
\* other; a lock is held only inside the section that took it, so a worker
\* that has ended holds none; whenever a worker waits for a lock some worker
\* can take a step; and every worker that runs a request ends.
C19_Locks ==
  /\ [](\A w \in Workers :
          /\ ~(lock_put = w /\ lock_get = w)
          /\ WaitsPut(w) => lock_get # w
          /\ WaitsGet(w) => lock_put # w
          /\ lock_put = w => wk[w].pc = "put"
          /\ lock_get = w => wk[w].pc = "get_ret"
          /\ Free(w) => lock_put # w /\ lock_get # w)
  /\ []((\E w \in Workers : WaitsPut(w) \/ WaitsGet(w)) =>
          ENABLED (\E v \in Workers :
                     PutLock(v) \/ Put(v) \/ CheckObsolete(v) \/ GetLock(v) \/ GetReturn(v)))
  /\ \A w \in Workers : (~Free(w)) ~> Finished(w)

\* C19's case: both locks are held at once, by different workers, and the
\* one that reads found a list that another put had stored.
C19_Witness ==
  \E w, v \in Workers :
    /\ w # v
    /\ lock_put = w
    /\ lock_get = v
    /\ wk[w].pc = "put"
    /\ wk[v].pc = "get_ret"

====
